---- MODULE Spec2Model ----
(***************************************************************************)
(* Structural model of msh_mlx/modules/seanet.py: the assembly of the      *)
(* SEANet encoder and decoder towers and of the residual block, and the    *)
(* forward pass over the assembled layer lists.                            *)
(*                                                                         *)
(* A layer is a record of the arguments its constructor was called with.   *)
(* A tensor is a record of its channel count and its length in time.       *)
(* A constructor or a call that raises yields a record whose status (or    *)
(* kind) names the exception.                                              *)
(***************************************************************************)
EXTENDS Integers, Sequences, FiniteSets, TLC

VARIABLES cfg, bargs, enc, dec, blk, encIn, encOut, decOut, blkIn, blkOut

vars == <<cfg, bargs, enc, dec, blk, encIn, encOut, decOut, blkIn, blkOut>>

(***************************************************************************)
(* Bounds of the explored inputs.                                          *)
(***************************************************************************)
MaxRatios == 2
MaxResidual == 2
MaxFrames == 2
MaxKernels == 2

RatioValues == {2, 3}

(***************************************************************************)
(* Defaults of the constructors' keyword arguments.                        *)
(***************************************************************************)
DefaultChannels == 1
DefaultDimension == 128
DefaultNFilters == 32
DefaultNResidualLayers == 3
DefaultKernelSize == 7
DefaultLastKernelSize == 7
DefaultResidualKernelSize == 3
DefaultDilationBase == 2
DefaultCompress == 2

(***************************************************************************)
(* Python helpers.                                                         *)
(***************************************************************************)
RECURSIVE Pow(_, _)
Pow(b, e) == IF e = 0 THEN 1 ELSE b * Pow(b, e - 1)

RECURSIVE Prod(_)
Prod(s) == IF s = <<>> THEN 1 ELSE Head(s) * Prod(Tail(s))

Reversed(s) == [i \in 1..Len(s) |-> s[Len(s) + 1 - i]]

Range(s) == {s[i] : i \in 1..Len(s)}

RECURSIVE SeqsUpTo(_, _)
SeqsUpTo(S, n) ==
    IF n = 0 THEN {<<>>}
    ELSE SeqsUpTo(S, n - 1) \cup
         {Append(s, x) : s \in {t \in SeqsUpTo(S, n - 1) : Len(t) = n - 1}, x \in S}

(***************************************************************************)
(* The names bound in the module's global namespace by its imports and     *)
(* class statements.                                                       *)
(***************************************************************************)
ModuleGlobals ==
    {"dataclass", "np", "List", "Optional", "Tuple", "Dict", "Any", "mx", "nn",
     "StreamableConv1d", "SeaNetConfig", "StreamingAdd", "SeaNetResnetBlock",
     "SeaNetEncoder", "SeaNetDecoder"}

(***************************************************************************)
(* Layers.                                                                 *)
(***************************************************************************)
Layer(kind, in_chs, out_chs, kernel_size, stride, dilation, norm, block, shortcut) ==
    [kind |-> kind, in_chs |-> in_chs, out_chs |-> out_chs,
     kernel_size |-> kernel_size, stride |-> stride, dilation |-> dilation,
     norm |-> norm, block |-> block, shortcut |-> shortcut]

StreamableConv1d(in_chs, out_chs, kernel_size, stride, dilation, norm) ==
    Layer("StreamableConv1d", in_chs, out_chs, kernel_size, stride, dilation,
          norm, <<>>, <<>>)

StreamableConvTranspose1d(in_chs, out_chs, kernel_size, stride, norm) ==
    Layer("StreamableConvTranspose1d", in_chs, out_chs, kernel_size, stride, 1,
          norm, <<>>, <<>>)

Act == Layer("act", 0, 0, 0, 1, 1, "", <<>>, <<>>)

FinalAct == Layer("final_act", 0, 0, 0, 1, 1, "", <<>>, <<>>)

MaskFn == Layer("mask_fn", 0, 0, 0, 1, 1, "", <<>>, <<>>)

Identity == Layer("Identity", 0, 0, 0, 1, 1, "", <<>>, <<>>)

PyList(items) == Layer("list", 0, 0, 0, 1, 1, "", items, <<>>)

StreamingAdd == Layer("StreamingAdd", 0, 0, 0, 1, 1, "", <<>>, <<>>)

RaisedLayer(err) == Layer(err, 0, 0, 0, 1, 1, "", <<>>, <<>>)

(***************************************************************************)
(* SeaNetResnetBlock.__init__                                              *)
(***************************************************************************)
KernelDilationCheck(kernel_sizes, dilations) == Len(kernel_sizes) = Len(dilations)

BlockInChs(dim, hidden, i) == IF i = 0 THEN dim ELSE hidden

BlockOutChs(dim, hidden, i, n) == IF i = n - 1 THEN dim ELSE hidden

\* the list `block` of (activation, convolution) pairs, i counted from 0
RECURSIVE BlockPairs(_, _, _, _, _, _)
BlockPairs(dim, hidden, kernel_sizes, dilations, norm, i) ==
    IF i >= Len(kernel_sizes) \/ i >= Len(dilations) THEN <<>>
    ELSE <<Act,
           StreamableConv1d(BlockInChs(dim, hidden, i),
                            BlockOutChs(dim, hidden, i, Len(kernel_sizes)),
                            kernel_sizes[i + 1], 1, dilations[i + 1], norm)>>
         \o BlockPairs(dim, hidden, kernel_sizes, dilations, norm, i + 1)

Shortcut(dim, norm, true_skip) ==
    IF true_skip THEN Identity ELSE StreamableConv1d(dim, dim, 1, 1, 1, norm)

SeaNetResnetBlock(dim, kernel_sizes, dilations, norm, compress, true_skip) ==
    IF ~KernelDilationCheck(kernel_sizes, dilations)
    THEN RaisedLayer("AssertionError")
    ELSE LET hidden == dim \div compress
             block == BlockPairs(dim, hidden, kernel_sizes, dilations, norm, 0)
         IN  Layer("SeaNetResnetBlock", dim, dim, 0, 1, 1, norm,
                   <<PyList(block)>>,
                   <<Shortcut(dim, norm, true_skip)>>)

(***************************************************************************)
(* Tower instances.                                                        *)
(***************************************************************************)
NoObject ==
    [status |-> "none", ratios |-> <<>>, hop_length |-> 0, n_blocks |-> 0,
     model |-> <<>>]

Raised(err) ==
    [status |-> err, ratios |-> <<>>, hop_length |-> 0, n_blocks |-> 0,
     model |-> <<>>]

Tower(ratios, model) ==
    [status |-> "ok", ratios |-> ratios, hop_length |-> Prod(ratios),
     n_blocks |-> Len(ratios) + 2, model |-> model]

DisableNormCheck(k, n_blocks) == k >= 0 /\ k <= n_blocks

\* a check that rejects only a positive count
LstmCheckPositiveOnly(lstm) == lstm <= 0

LstmCheck(lstm) == lstm = 0

ResidualLayers(c, dim, block_norm) ==
    [jj \in 1..c.n_residual_layers |->
        SeaNetResnetBlock(dim,
                          <<c.residual_kernel_size, 1>>,
                          <<Pow(c.dilation_base, jj - 1), 1>>,
                          block_norm, c.compress, c.true_skip)]

(***************************************************************************)
(* SeaNetEncoder.__init__                                                  *)
(***************************************************************************)
EncFirstNorm(c) == IF c.disable_norm_outer_blocks >= 1 THEN "none" ELSE c.norm

EncBlockNorm(c, i) == IF c.disable_norm_outer_blocks >= i + 2 THEN "none" ELSE c.norm

EncLastNorm(c, n_blocks) ==
    IF c.disable_norm_outer_blocks = n_blocks THEN "none" ELSE c.norm

MaskFirst(c) == c.mask_fn # "None" /\ c.mask_position = <<0>>

\* a splice that compares the position with the stage index itself
MaskAfterSameIndex(c, i) == c.mask_fn # "None" /\ c.mask_position = <<i>>

MaskAfter(c, i) == c.mask_fn # "None" /\ c.mask_position = <<i + 1>>

EncoderStage(c, i, ratio, mult) ==
    ResidualLayers(c, mult * c.n_filters, EncBlockNorm(c, i))
    \o <<Act,
         StreamableConv1d(mult * c.n_filters, mult * c.n_filters * 2,
                          ratio * 2, ratio, 1, EncBlockNorm(c, i))>>
    \o (IF MaskAfter(c, i) THEN <<MaskFn>> ELSE <<>>)

RECURSIVE EncoderStages(_, _, _, _)
EncoderStages(c, ratios, i, mult) ==
    IF i >= Len(ratios) THEN <<>>
    ELSE EncoderStage(c, i, ratios[i + 1], mult)
         \o EncoderStages(c, ratios, i + 1, mult * 2)

\* the value of mult when the loop over the ratios ends
RECURSIVE EncMultAfter(_, _, _)
EncMultAfter(ratios, i, mult) ==
    IF i >= Len(ratios) THEN mult ELSE EncMultAfter(ratios, i + 1, mult * 2)

EncoderModel(c, ratios) ==
    <<StreamableConv1d(c.channels, 1 * c.n_filters, c.kernel_size, 1, 1,
                       EncFirstNorm(c))>>
    \o (IF MaskFirst(c) THEN <<MaskFn>> ELSE <<>>)
    \o EncoderStages(c, ratios, 0, 1)
    \o <<Act,
         StreamableConv1d(EncMultAfter(ratios, 0, 1) * c.n_filters, c.dimension,
                          c.last_kernel_size, 1, 1,
                          EncLastNorm(c, Len(ratios) + 2))>>

SeaNetEncoder(c) ==
    LET ratios == Reversed(c.ratios)
        model == EncoderModel(c, ratios)
    IN  IF ~DisableNormCheck(c.disable_norm_outer_blocks, Len(ratios) + 2)
        THEN Raised("AssertionError")
        ELSE IF \E l \in Range(model) : l.kind = "AssertionError"
        THEN Raised("AssertionError")
        ELSE IF ~LstmCheck(c.lstm)
        THEN Raised("AssertionError")
        ELSE Tower(ratios, model)

(***************************************************************************)
(* SeaNetDecoder.__init__                                                  *)
(***************************************************************************)
DecFirstNorm(c, n_blocks) ==
    IF c.disable_norm_outer_blocks = n_blocks THEN "none" ELSE c.norm

DecBlockNorm(c, i, n_blocks) ==
    IF c.disable_norm_outer_blocks >= n_blocks - (i + 1) THEN "none" ELSE c.norm

DecLastNorm(c) == IF c.disable_norm_outer_blocks >= 1 THEN "none" ELSE c.norm

DecoderStage(c, i, ratio, mult, n_blocks) ==
    <<Act,
      StreamableConvTranspose1d(mult * c.n_filters, (mult * c.n_filters) \div 2,
                                ratio * 2, ratio, DecBlockNorm(c, i, n_blocks))>>
    \o ResidualLayers(c, (mult * c.n_filters) \div 2, DecBlockNorm(c, i, n_blocks))

RECURSIVE DecoderStages(_, _, _, _)
DecoderStages(c, ratios, i, mult) ==
    IF i >= Len(ratios) THEN <<>>
    ELSE DecoderStage(c, i, ratios[i + 1], mult, Len(ratios) + 2)
         \o DecoderStages(c, ratios, i + 1, mult \div 2)

DecoderModel(c, ratios) ==
    <<StreamableConv1d(c.dimension, Pow(2, Len(ratios)) * c.n_filters,
                       c.kernel_size, 1, 1, DecFirstNorm(c, Len(ratios) + 2))>>
    \o DecoderStages(c, ratios, 0, Pow(2, Len(ratios)))
    \o <<Act,
         StreamableConv1d(c.n_filters, c.channels, c.last_kernel_size, 1, 1,
                          DecLastNorm(c))>>
    \o (IF c.final_activation # "None" THEN <<FinalAct>> ELSE <<>>)

\* the loop body names StreamableConvTranspose1d, looked up in the module's
\* globals when the first iteration runs
UpsampleNameBound == "StreamableConvTranspose1d" \in ModuleGlobals

SeaNetDecoder(c) ==
    LET ratios == c.ratios
        model == DecoderModel(c, ratios)
    IN  IF ~DisableNormCheck(c.disable_norm_outer_blocks, Len(ratios) + 2)
        THEN Raised("AssertionError")
        ELSE IF ~LstmCheck(c.lstm)
        THEN Raised("AssertionError")
        ELSE IF Len(ratios) > 0 /\ ~UpsampleNameBound
        THEN Raised("NameError")
        ELSE IF \E l \in Range(model) : l.kind = "AssertionError"
        THEN Raised("AssertionError")
        ELSE Tower(ratios, model)

(***************************************************************************)
(* Forward passes.                                                         *)
(***************************************************************************)
NoTensor == [status |-> "none", ch |-> 0, len |-> 0]

Tensor(ch, len) == [status |-> "ok", ch |-> ch, len |-> len]

RaisedTensor(err) == [status |-> err, ch |-> 0, len |-> 0]

\* the convolution primitives: a channel mismatch is a shape failure, a
\* stride s divides (convolution) or multiplies (transposed) the length
ConvForward(m, x) ==
    IF x.ch # m.in_chs THEN RaisedTensor("ShapeError")
    ELSE Tensor(m.out_chs, x.len \div m.stride)

ConvTransposeForward(m, x) ==
    IF x.ch # m.in_chs THEN RaisedTensor("ShapeError")
    ELSE Tensor(m.out_chs, x.len * m.stride)

\* a Python list and a StreamingAdd instance (a Module subclass that defines
\* no __call__) cannot be called
Callable(m) == m.kind \notin {"list", "StreamingAdd"}

StreamingAddCall(add, u, v) ==
    IF ~Callable(add) THEN RaisedTensor("TypeError")
    ELSE IF u.ch # v.ch \/ u.len # v.len THEN RaisedTensor("ShapeError")
    ELSE Tensor(u.ch, u.len)

RECURSIVE Call(_, _)
RECURSIVE SequentialCall(_, _)

\* SeaNetResnetBlock.__call__
ResnetCall(m, x) ==
    LET u == Call(m.shortcut[1], x)
        v == SequentialCall(m.block, x)
    IN  IF u.status # "ok" THEN u
        ELSE IF v.status # "ok" THEN v
        ELSE StreamingAddCall(StreamingAdd, u, v)

Call(m, x) ==
    IF ~Callable(m) THEN RaisedTensor("TypeError")
    ELSE CASE m.kind = "StreamableConv1d" -> ConvForward(m, x)
           [] m.kind = "StreamableConvTranspose1d" -> ConvTransposeForward(m, x)
           [] m.kind = "SeaNetResnetBlock" -> ResnetCall(m, x)
           [] OTHER -> x

\* nn.Sequential.__call__: each layer in turn
SequentialCall(layers, x) ==
    IF layers = <<>> \/ x.status # "ok" THEN x
    ELSE SequentialCall(Tail(layers), Call(Head(layers), x))

(***************************************************************************)
(* Explored configurations: the constructors' defaults, and configurations *)
(* that differ from a small base configuration in one group of arguments.  *)
(***************************************************************************)
Ratios == SeqsUpTo(RatioValues, MaxRatios)

MaskPositions == {<<>>} \cup {<<p>> : p \in -1..(MaxRatios + 1)}

DefaultConfig ==
    [channels |-> DefaultChannels, dimension |-> DefaultDimension,
     n_filters |-> DefaultNFilters, n_residual_layers |-> DefaultNResidualLayers,
     ratios |-> <<8, 5, 4, 2>>, norm |-> "none",
     kernel_size |-> DefaultKernelSize,
     last_kernel_size |-> DefaultLastKernelSize,
     residual_kernel_size |-> DefaultResidualKernelSize,
     dilation_base |-> DefaultDilationBase, true_skip |-> TRUE,
     compress |-> DefaultCompress, lstm |-> 0,
     disable_norm_outer_blocks |-> 0, mask_fn |-> "None",
     mask_position |-> <<>>, final_activation |-> "None"]

BaseConfig == [DefaultConfig EXCEPT !.norm = "weight_norm"]

ValidationConfigs ==
    {[BaseConfig EXCEPT !.ratios = r, !.disable_norm_outer_blocks = k,
                        !.lstm = l, !.n_residual_layers = nr] :
        r \in Ratios, k \in -1..(MaxRatios + 3), l \in {-1, 0, 1},
        nr \in 0..MaxResidual}

WidthConfigs ==
    {[BaseConfig EXCEPT !.ratios = r, !.n_filters = nf, !.n_residual_layers = nr,
                        !.compress = cp, !.true_skip = ts,
                        !.final_activation = fa, !.dilation_base = db,
                        !.channels = 2, !.dimension = 5] :
        r \in Ratios, nf \in {1, 3}, nr \in 0..MaxResidual, cp \in {1, 2},
        ts \in BOOLEAN, fa \in {"None", "Tanh"}, db \in {2, 3}}

MaskConfigs ==
    {[BaseConfig EXCEPT !.ratios = r, !.n_residual_layers = nr, !.mask_fn = mf,
                        !.mask_position = mp, !.disable_norm_outer_blocks = k] :
        r \in Ratios, nr \in 0..MaxResidual, mf \in {"None", "mask_fn"},
        mp \in MaskPositions, k \in {0, 1}}

Configs == {DefaultConfig} \cup ValidationConfigs \cup WidthConfigs \cup MaskConfigs

BlockArgs(dim, kernel_sizes, dilations, norm, compress, true_skip) ==
    [dim |-> dim, kernel_sizes |-> kernel_sizes, dilations |-> dilations,
     norm |-> norm, compress |-> compress, true_skip |-> true_skip]

DefaultBlockArgs == BlockArgs(4, <<3, 1>>, <<1, 1>>, "none", DefaultCompress, TRUE)

BlockArgSets ==
    {BlockArgs(d, ks, dl, nm, cp, ts) :
        d \in {4, 5}, ks \in SeqsUpTo({1, 3}, MaxKernels),
        dl \in SeqsUpTo({1, 2}, MaxKernels), nm \in {"weight_norm"},
        cp \in {1, 2, 3}, ts \in BOOLEAN}

(***************************************************************************)
(* Initial state: one configuration, nothing constructed yet.              *)
(***************************************************************************)
Init ==
    /\ \/ cfg \in Configs /\ bargs = DefaultBlockArgs
       \/ cfg = DefaultConfig /\ bargs \in BlockArgSets
    /\ enc = NoObject
    /\ dec = NoObject
    /\ blk = RaisedLayer("none")
    /\ encIn = NoTensor
    /\ encOut = NoTensor
    /\ decOut = NoTensor
    /\ blkIn = NoTensor
    /\ blkOut = NoTensor

(***************************************************************************)
(* Operations.                                                             *)
(***************************************************************************)
ConstructEncoder ==
    /\ enc.status = "none"
    /\ enc' = SeaNetEncoder(cfg)
    /\ UNCHANGED <<cfg, bargs, dec, blk, encIn, encOut, decOut, blkIn, blkOut>>

ConstructDecoder ==
    /\ dec.status = "none"
    /\ dec' = SeaNetDecoder(cfg)
    /\ UNCHANGED <<cfg, bargs, enc, blk, encIn, encOut, decOut, blkIn, blkOut>>

ConstructResnetBlock ==
    /\ blk.kind = "none"
    /\ blk' = SeaNetResnetBlock(bargs.dim, bargs.kernel_sizes, bargs.dilations,
                                bargs.norm, bargs.compress, bargs.true_skip)
    /\ UNCHANGED <<cfg, bargs, enc, dec, encIn, encOut, decOut, blkIn, blkOut>>

\* SeaNetEncoder.__call__ on an input of whole frames
EncoderForward ==
    /\ enc.status = "ok"
    /\ encOut.status = "none"
    /\ \E frames \in 1..MaxFrames :
          /\ encIn' = Tensor(cfg.channels, frames * enc.hop_length)
          /\ encOut' = SequentialCall(enc.model, encIn')
    /\ UNCHANGED <<cfg, bargs, enc, dec, blk, decOut, blkIn, blkOut>>

\* SeaNetDecoder.__call__ on the encoder's output
DecoderForward ==
    /\ dec.status = "ok"
    /\ encOut.status = "ok"
    /\ decOut.status = "none"
    /\ decOut' = SequentialCall(dec.model, encOut)
    /\ UNCHANGED <<cfg, bargs, enc, dec, blk, encIn, encOut, blkIn, blkOut>>

\* SeaNetResnetBlock.__call__
ResnetForward ==
    /\ blk.kind = "SeaNetResnetBlock"
    /\ blkOut.status = "none"
    /\ \E len \in 1..MaxFrames :
          /\ blkIn' = Tensor(bargs.dim, len)
          /\ blkOut' = Call(blk, blkIn')
    /\ UNCHANGED <<cfg, bargs, enc, dec, blk, encIn, encOut, decOut>>

Next ==
    \/ ConstructEncoder
    \/ ConstructDecoder
    \/ ConstructResnetBlock
    \/ EncoderForward
    \/ DecoderForward
    \/ ResnetForward

Spec == Init /\ [][Next]_vars

(***************************************************************************)
(* Vocabulary of the properties.                                           *)
(***************************************************************************)
N == Len(cfg.ratios)

NRes == cfg.n_residual_layers

K == cfg.disable_norm_outer_blocks

\* the configuration passes the constructors' own checks
ValidConfig == K >= 0 /\ K <= N + 2 /\ cfg.lstm = 0

IsMask(l) == l.kind = "mask_fn"

IsConv(l) == l.kind = "StreamableConv1d"

IsWidthLayer(l) ==
    l.kind \in {"StreamableConv1d", "StreamableConvTranspose1d", "SeaNetResnetBlock"}

NotMask(l) == ~IsMask(l)

NotFinalAct(l) == l.kind # "final_act"

\* the encoder's layers without the spliced mask, the decoder's without the
\* optional final activation
EncLayers == SelectSeq(enc.model, NotMask)

DecLayers == SelectSeq(dec.model, NotFinalAct)

TowerLen == 3 + N * (NRes + 2)

\* ratio stage i (from 0): residual block j (from 0) and the strided layer
EncBlockAt(i, j) == EncLayers[2 + i * (NRes + 2) + j]

EncDownAt(i) == EncLayers[1 + (i + 1) * (NRes + 2)]

DecUpAt(i) == DecLayers[3 + i * (NRes + 2)]

DecBlockAt(i, j) == DecLayers[4 + i * (NRes + 2) + j]

InnerConvs(b) == SelectSeq(b.block[1].block, IsConv)

BlockNorms(b) ==
    {b.norm} \cup {c.norm : c \in Range(InnerConvs(b))}
             \cup {c.norm : c \in {x \in Range(b.shortcut) : IsConv(x)}}

EncShape ==
    /\ enc.status = "ok"
    /\ Len(EncLayers) = TowerLen
    /\ IsConv(EncLayers[1]) /\ IsConv(EncLayers[TowerLen])
    /\ \A i \in 0..(N - 1) :
          /\ IsConv(EncDownAt(i))
          /\ \A j \in 0..(NRes - 1) : EncBlockAt(i, j).kind = "SeaNetResnetBlock"

DecShape ==
    /\ dec.status = "ok"
    /\ Len(DecLayers) = TowerLen
    /\ IsConv(DecLayers[1]) /\ IsConv(DecLayers[TowerLen])
    /\ \A i \in 0..(N - 1) :
          /\ DecUpAt(i).kind = "StreamableConvTranspose1d"
          /\ \A j \in 0..(NRes - 1) : DecBlockAt(i, j).kind = "SeaNetResnetBlock"

BothAttempted == enc.status # "none" /\ dec.status # "none"

(***************************************************************************)
(* C1: for every valid configuration the encoder and the decoder built     *)
(* from the same ratio list both finish construction, and their hop        *)
(* lengths are equal to the product of the ratios.                         *)
(***************************************************************************)
EncHopLength ==
    (ValidConfig /\ enc.status # "none") =>
        (enc.status = "ok" /\ enc.hop_length = Prod(cfg.ratios))

DecHopLength ==
    (ValidConfig /\ dec.status # "none") =>
        (dec.status = "ok" /\ dec.hop_length = Prod(cfg.ratios))

\* C1: both towers finish construction from a valid configuration with
\* hop_length equal to the product of the ratios
C1_HopLengthEqual ==
    /\ EncHopLength
    /\ DecHopLength
    /\ (ValidConfig /\ BothAttempted) => enc.hop_length = dec.hop_length

(***************************************************************************)
(* C2: with k = disable_norm_outer_blocks, stage b of the encoder has its  *)
(* normalization disabled when b < k, stage b of the decoder when          *)
(* b >= n_blocks - k, and every other stage (its residual blocks and its   *)
(* strided layer) keeps the configured normalization kind.                 *)
(***************************************************************************)
EncStageNorm(b) == IF b < K THEN "none" ELSE cfg.norm

DecStageNorm(b) == IF b >= (N + 2) - K THEN "none" ELSE cfg.norm

EncNormBoundary ==
    (ValidConfig /\ enc.status # "none") =>
        /\ EncShape
        /\ EncLayers[1].norm = EncStageNorm(0)
        /\ \A i \in 0..(N - 1) :
              /\ EncDownAt(i).norm = EncStageNorm(i + 1)
              /\ \A j \in 0..(NRes - 1) :
                    BlockNorms(EncBlockAt(i, j)) = {EncStageNorm(i + 1)}
        /\ EncLayers[TowerLen].norm = EncStageNorm(N + 1)

DecNormBoundary ==
    (ValidConfig /\ dec.status # "none") =>
        /\ DecShape
        /\ DecLayers[1].norm = DecStageNorm(0)
        /\ \A i \in 0..(N - 1) :
              /\ DecUpAt(i).norm = DecStageNorm(i + 1)
              /\ \A j \in 0..(NRes - 1) :
                    BlockNorms(DecBlockAt(i, j)) = {DecStageNorm(i + 1)}
        /\ DecLayers[TowerLen].norm = DecStageNorm(N + 1)

\* C2: normalization is disabled in exactly the first k stages of the
\* encoder and the last k stages of the decoder
C2_NormBoundary == EncNormBoundary /\ DecNormBoundary

(***************************************************************************)
(* C3: construction fails with the assertion error when the tower is built *)
(* with lstm > 0 or with disable_norm_outer_blocks outside 0..len(ratios)+2*)
(* or the residual block with lists of different lengths, no instance      *)
(* results, and in every other case these checks do not fail construction. *)
(***************************************************************************)
KOutOfRange == K < 0 \/ K > N + 2

BlockMismatch == Len(bargs.kernel_sizes) # Len(bargs.dilations)

ChecksDecide(towerFails) ==
    /\ enc.status # "none" =>
          /\ (enc.status = "AssertionError") <=> towerFails
          /\ towerFails => (enc.model = <<>> /\ encOut.status = "none")
    /\ dec.status # "none" =>
          /\ (dec.status = "AssertionError") <=> towerFails
          /\ towerFails => (dec.model = <<>> /\ decOut.status = "none")
    /\ blk.kind # "none" =>
          /\ (blk.kind = "AssertionError") <=> BlockMismatch
          /\ BlockMismatch => blkOut.status = "none"

\* C3: the three checks fail construction when lstm > 0, when
\* disable_norm_outer_blocks is out of range or when the block's lists
\* differ in length, and in no other case
C3_FatalConstruction == ChecksDecide(cfg.lstm > 0 \/ KOutOfRange)

\* C3, amended: the three checks fail construction when lstm is not zero (a
\* negative count included), when disable_norm_outer_blocks is out of range
\* or when the block's lists differ in length, and in no other case
C3_FatalConstructionNonZero == ChecksDecide(cfg.lstm # 0 \/ KOutOfRange)

C3_Witness ==
    /\ cfg.lstm < 0 /\ ~KOutOfRange
    /\ enc.status = "AssertionError"
    /\ dec.status = "AssertionError"
    /\ blk.kind = "SeaNetResnetBlock"

(***************************************************************************)
(* C4: on an input of L = m * hop_length samples the encoder's forward     *)
(* pass yields (dimension, L / hop_length) and the decoder's forward pass  *)
(* on that yields (channels, L); the default configuration on 320 samples  *)
(* yields one frame of 128 channels.                                       *)
(***************************************************************************)
\* C4: the encoder maps (channels, L) to (dimension, L / hop_length) and the
\* decoder maps that back to (channels, L)
C4_RoundTripShape ==
    ValidConfig =>
        /\ encOut.status # "none" =>
              encOut = Tensor(cfg.dimension, encIn.len \div Prod(cfg.ratios))
        /\ decOut.status # "none" =>
              decOut = Tensor(cfg.channels, encIn.len)

(***************************************************************************)
(* C5: encoder ratio stage i has its residual blocks at 2^i * n_filters    *)
(* and its strided convolution 2^i * n_filters -> 2^(i+1) * n_filters;     *)
(* decoder ratio stage i has its transposed convolution                    *)
(* 2^(n-i) * n_filters -> 2^(n-i-1) * n_filters and its residual blocks at *)
(* 2^(n-i-1) * n_filters; the encoder's final convolution takes            *)
(* 2^n * n_filters -> dimension, the decoder's initial one the reverse.    *)
(***************************************************************************)
Width(e) == Pow(2, e) * cfg.n_filters

EncWidths ==
    (ValidConfig /\ enc.status # "none") =>
        /\ EncShape
        /\ \A i \in 0..(N - 1) :
              /\ EncDownAt(i).in_chs = Width(i)
              /\ EncDownAt(i).out_chs = Width(i + 1)
              /\ \A j \in 0..(NRes - 1) :
                    /\ EncBlockAt(i, j).in_chs = Width(i)
                    /\ EncBlockAt(i, j).out_chs = Width(i)
        /\ EncLayers[TowerLen].in_chs = Width(N)
        /\ EncLayers[TowerLen].out_chs = cfg.dimension

DecWidths ==
    (ValidConfig /\ dec.status # "none") =>
        /\ DecShape
        /\ DecLayers[1].in_chs = cfg.dimension
        /\ DecLayers[1].out_chs = Width(N)
        /\ \A i \in 0..(N - 1) :
              /\ DecUpAt(i).in_chs = Width(N - i)
              /\ DecUpAt(i).out_chs = Width(N - i - 1)
              /\ \A j \in 0..(NRes - 1) :
                    /\ DecBlockAt(i, j).in_chs = Width(N - i - 1)
                    /\ DecBlockAt(i, j).out_chs = Width(N - i - 1)

\* C5: the channel widths of the decoder's stages are those of the
\* encoder's stages in reverse
C5_WidthMirror ==
    /\ EncWidths
    /\ DecWidths
    /\ (ValidConfig /\ BothAttempted) =>
          \A i \in 0..(N - 1) :
              /\ DecUpAt(i).in_chs = EncDownAt(N - 1 - i).out_chs
              /\ DecUpAt(i).out_chs = EncDownAt(N - 1 - i).in_chs

(***************************************************************************)
(* C6: in both towers residual block j of every ratio stage is built with  *)
(* dilations [dilation_base^j, 1] and kernel sizes                         *)
(* [residual_kernel_size, 1], so the first block of a stage has dilation 1.*)
(***************************************************************************)
Scheduled(b, j) ==
    /\ Len(InnerConvs(b)) = 2
    /\ InnerConvs(b)[1].dilation = Pow(cfg.dilation_base, j)
    /\ InnerConvs(b)[2].dilation = 1
    /\ InnerConvs(b)[1].kernel_size = cfg.residual_kernel_size
    /\ InnerConvs(b)[2].kernel_size = 1

EncDilations ==
    (ValidConfig /\ enc.status # "none") =>
        /\ EncShape
        /\ \A i \in 0..(N - 1) : \A j \in 0..(NRes - 1) :
              Scheduled(EncBlockAt(i, j), j)

DecDilations ==
    (ValidConfig /\ dec.status # "none") =>
        /\ DecShape
        /\ \A i \in 0..(N - 1) : \A j \in 0..(NRes - 1) :
              Scheduled(DecBlockAt(i, j), j)

\* C6: residual block j of every ratio stage of both towers has dilations
\* [dilation_base^j, 1] and kernel sizes [residual_kernel_size, 1]
C6_DilationSchedule == EncDilations /\ DecDilations

(***************************************************************************)
(* C7: the residual block's forward pass on an input of dim channels       *)
(* returns shortcut(x) + branch(x), of dim channels and of the input's     *)
(* length.                                                                 *)
(***************************************************************************)
\* C7: the residual block's forward pass returns a sequence of dim channels
\* and of the input's length
C7_ResidualForward ==
    blkOut.status # "none" => blkOut = Tensor(bargs.dim, blkIn.len)

(***************************************************************************)
(* C8: for the caller's ratio list R of length n, encoder ratio stage i    *)
(* has stride R[n-1-i] and kernel 2 * R[n-1-i], decoder ratio stage i has  *)
(* stride R[i] and kernel 2 * R[i], and the caller's list is not reversed  *)
(* in place.                                                               *)
(***************************************************************************)
EncRatioOrder ==
    (ValidConfig /\ enc.status # "none") =>
        /\ EncShape
        /\ enc.ratios = Reversed(cfg.ratios)
        /\ \A i \in 0..(N - 1) :
              /\ EncDownAt(i).stride = cfg.ratios[N - i]
              /\ EncDownAt(i).kernel_size = 2 * cfg.ratios[N - i]

DecRatioOrder ==
    (ValidConfig /\ dec.status # "none") =>
        /\ DecShape
        /\ dec.ratios = cfg.ratios
        /\ \A i \in 0..(N - 1) :
              /\ DecUpAt(i).stride = cfg.ratios[i + 1]
              /\ DecUpAt(i).kernel_size = 2 * cfg.ratios[i + 1]

\* C8: the encoder's strides are the caller's ratios in reverse order, the
\* decoder's are the caller's ratios in order
C8_RatioOrder ==
    /\ EncRatioOrder
    /\ DecRatioOrder
    /\ (ValidConfig /\ BothAttempted) =>
          \A i \in 0..(N - 1) : EncDownAt(i).stride = DecUpAt(N - 1 - i).stride

(***************************************************************************)
(* C9: with mask_fn given and mask_position = p in 0..len(ratios) the      *)
(* encoder holds the mask exactly once, right after the initial            *)
(* convolution when p = 0 and right after the strided convolution of ratio *)
(* stage p - 1 otherwise; with no mask_fn, no position or a position       *)
(* outside that range it holds no mask; the other layers are those of the  *)
(* encoder built without a mask, in the same order.                        *)
(***************************************************************************)
MaskSpliced ==
    /\ cfg.mask_fn # "None"
    /\ cfg.mask_position # <<>>
    /\ cfg.mask_position[1] \in 0..N

MaskIndexes == {q \in 1..Len(enc.model) : IsMask(enc.model[q])}

\* C9: the mask is spliced exactly once at the configured position, or not
\* at all, and the other layers are unchanged
C9_MaskSplice ==
    enc.status = "ok" =>
        /\ MaskIndexes =
              IF MaskSpliced
              THEN {2 + cfg.mask_position[1] * (NRes + 2)}
              ELSE {}
        /\ \A q \in MaskIndexes :
              /\ IsConv(enc.model[q - 1])
              /\ enc.model[q - 1].stride =
                    IF q = 2 THEN 1 ELSE enc.ratios[cfg.mask_position[1]]
        /\ EncLayers = SeaNetEncoder([cfg EXCEPT !.mask_fn = "None"]).model
        /\ Len(EncLayers) = TowerLen

C9_Witness ==
    /\ enc.status = "ok"
    /\ cfg.mask_fn # "None"
    /\ cfg.mask_position = <<2>>
    /\ N = 2 /\ NRes >= 1
    /\ IsMask(enc.model[2 + 2 * (NRes + 2)])

(***************************************************************************)
(* C10: in every encoder and decoder assembled from a valid configuration  *)
(* each convolution, transposed convolution or residual block emits the    *)
(* channel count the next one takes, the first takes channels (encoder) or *)
(* dimension (decoder), the last emits dimension (encoder) or channels     *)
(* (decoder); inside a residual block the first convolution takes dim, the *)
(* last emits dim and every interface in between carries dim // compress.  *)
(***************************************************************************)
Chained(layers, first, last) ==
    LET w == SelectSeq(layers, IsWidthLayer)
    IN  /\ Len(w) >= 2
        /\ w[1].in_chs = first
        /\ w[Len(w)].out_chs = last
        /\ \A q \in 1..(Len(w) - 1) : w[q].out_chs = w[q + 1].in_chs

Bottleneck(b, compress) ==
    LET ic == InnerConvs(b)
    IN  Len(ic) > 0 =>
            /\ ic[1].in_chs = b.in_chs
            /\ ic[Len(ic)].out_chs = b.in_chs
            /\ \A q \in 1..(Len(ic) - 1) :
                  /\ ic[q].out_chs = b.in_chs \div compress
                  /\ ic[q + 1].in_chs = b.in_chs \div compress

BlocksOf(layers) == {l \in Range(layers) : l.kind = "SeaNetResnetBlock"}

EncChannels ==
    (ValidConfig /\ enc.status # "none") =>
        /\ enc.status = "ok"
        /\ Chained(enc.model, cfg.channels, cfg.dimension)
        /\ \A b \in BlocksOf(enc.model) : Bottleneck(b, cfg.compress)

DecChannels ==
    (ValidConfig /\ dec.status # "none") =>
        /\ dec.status = "ok"
        /\ Chained(dec.model, cfg.dimension, cfg.channels)
        /\ \A b \in BlocksOf(dec.model) : Bottleneck(b, cfg.compress)

BlockChannels ==
    blk.kind = "SeaNetResnetBlock" =>
        /\ blk.in_chs = bargs.dim /\ blk.out_chs = bargs.dim
        /\ Bottleneck(blk, bargs.compress)

\* C10: consecutive layers of both towers and of every residual block agree
\* on their channel counts
C10_ChannelCompatibility == EncChannels /\ DecChannels /\ BlockChannels

====
